---- MODULE Spec2Model ----
(***************************************************************************)
(* A model of autogen/logger/otel_logger.py: the OtelLogger adapter that   *)
(* turns runtime events into log records and tracing spans, and the        *)
(* safe_serialize helper.                                                  *)
(*                                                                         *)
(* Four specifications share the module:                                   *)
(*   Spec     one logger instance driven sequentially through its public   *)
(*            operations (construction, start, the log_* calls, stop);     *)
(*   SpecStop the same instance on a root logger that already has          *)
(*            handlers attached;                                           *)
(*   SpecSer  safe_serialize applied to every value of a bounded family;   *)
(*   SpecEvt  log_event called from several threads, interleaved.          *)
(***************************************************************************)
EXTENDS Integers, Sequences, FiniteSets, TLC

VARIABLES
    \* ---- Spec: the logger instance and its surroundings
    env,          \* value of the EXPORTER_TYPE environment setting
    constructed,  \* "no" | "ok" | "failed": outcome of OtelLogger.__init__
    exporter,     \* exporter chosen by __init__ ("none" until chosen)
    session_id,   \* self.session_id
    handlers,     \* self.logger.handlers, the root logger's handler list
    closed,       \* handlers on which close() has been called
    now,          \* the clock, in nanoseconds
    phase,        \* history: "new" | "started" | "stopped"
    firstId,      \* history: what the first start() returned
    last,         \* history: the last public call, its input and outcome
    emitted,      \* entries the last call put on the logging channel
    span,         \* the span the last call recorded (NoSpan if none)
    \* ---- SpecSer
    obj,          \* the argument of safe_serialize
    result,       \* what safe_serialize(obj) produced
    \* ---- SpecEvt
    thr,          \* per thread: position in log_event, arguments, locals
    channel,      \* entries on the logging channel, in order of submission
    spans         \* spans recorded by the tracer, in order of their end

vars == <<env, constructed, exporter, session_id, handlers, closed, now, phase,
          firstId, last, emitted, span, obj, result, thr, channel, spans>>

-----------------------------------------------------------------------------
(* Python values.  Every value is a node of one shape:                     *)
(*   t    "str" | "num" | "obj" | "tojson" | "cycle" | "list" | "map"      *)
(*   s    the text of a str/num, the class name of an obj/tojson           *)
(*   keys the keys of a map, in insertion order                            *)
(*   kids the items of a list, or the values of a map (parallel to keys)   *)
(* "obj" is an object json cannot encode and that has no to_json;          *)
(* "tojson" is such an object that has a to_json method; "cycle" stands    *)
(* for a reference to the container that holds it.  The same shape holds   *)
(* a JSON document (t in str, num, list, map) and a raised exception       *)
(* (t = "raise", s the exception type, keys the text it interpolates).     *)

Leaf(t, s) == [t |-> t, s |-> s, keys |-> <<>>, kids |-> <<>>]
PyStr(s) == Leaf("str", s)
PyList(items) == [t |-> "list", s |-> "", keys |-> <<>>, kids |-> items]
PyMap(ks, vs) == [t |-> "map", s |-> "", keys |-> ks, kids |-> vs]

Raise(type, about) == [t |-> "raise", s |-> type, keys |-> <<about>>, kids |-> <<>>]
IsRaise(r) == r.t = "raise"

\* A dict key that is a tuple: json accepts str, int, float, bool, None keys.
TupleKey == "(1, 2)"
IsStrKey(k) == k # TupleKey

Marker == "<<non-serializable: "

\* The default= hook of a json.dumps call.
\*   "none"   no hook: the encoder raises TypeError
\*   "marker" log_event's lambda: the placeholder
\*   "safe"   safe_serialize's default: str(o.to_json()) or the placeholder
DefaultHook(o, mode) ==
    CASE mode = "none"                     -> Raise("TypeError", o.s)
      [] mode = "safe" /\ o.t = "tojson"   -> PyStr("to_json:" \o o.s)
      [] OTHER                             -> PyStr(Marker \o o.s \o ">>")

RECURSIVE Encode(_, _)
RECURSIVE EncodeItems(_, _, _, _)

\* The items of a list or dict, in order; the first failure ends the encoding.
EncodeItems(v, mode, i, acc) ==
    IF i > Len(v.kids)
    THEN [t |-> v.t, s |-> "", keys |-> v.keys, kids |-> acc]
    ELSE IF v.t = "map" /\ ~IsStrKey(v.keys[i])
    THEN Raise("TypeError", "keys must be str, int, float, bool or None, not tuple")
    ELSE LET e == Encode(v.kids[i], mode)
         IN  IF IsRaise(e) THEN e ELSE EncodeItems(v, mode, i + 1, Append(acc, e))

\* json.dumps(v, default=...) with check_circular left on: the JSON document,
\* or the exception the encoder raises.
Encode(v, mode) ==
    CASE v.t \in {"str", "num"}    -> v
      [] v.t = "cycle"             -> Raise("ValueError", "Circular reference detected")
      [] v.t \in {"obj", "tojson"} -> DefaultHook(v, mode)
      [] OTHER                     -> EncodeItems(v, mode, 1, <<>>)

json_dumps(v, mode) == Encode(v, mode)

safe_serialize(o) == json_dumps(o, "safe")

\* to_dict of autogen.logger.logger_utils: the value with every mapping's
\* excluded keys dropped, at every level.
RECURSIVE to_dict(_, _)
RECURSIVE to_dict_items(_, _, _)
to_dict_items(v, exclude, i) ==
    IF i > Len(v.kids) THEN [keys |-> <<>>, kids |-> <<>>]
    ELSE LET rest == to_dict_items(v, exclude, i + 1)
         IN  IF v.t = "map" /\ v.keys[i] \in exclude
             THEN rest
             ELSE [keys |-> IF v.t = "map" THEN <<v.keys[i]>> \o rest.keys ELSE <<>>,
                   kids |-> <<to_dict(v.kids[i], exclude)>> \o rest.kids]

to_dict(v, exclude) ==
    IF v.t \in {"list", "map"}
    THEN LET r == to_dict_items(v, exclude, 1)
         IN  [t |-> v.t, s |-> "", keys |-> r.keys, kids |-> r.kids]
    ELSE v

\* Every string a JSON document holds (map keys apart).
RECURSIVE StringsOf(_)
StringsOf(j) ==
    IF j.t = "str" THEN {j.s}
    ELSE UNION {StringsOf(j.kids[i]) : i \in 1..Len(j.kids)}

\* A well-formed JSON document: string keys, JSON scalars at the leaves.
RECURSIVE IsJson(_)
IsJson(j) ==
    /\ j.t \in {"str", "num", "list", "map"}
    /\ \A i \in 1..Len(j.keys) : IsStrKey(j.keys[i])
    /\ \A i \in 1..Len(j.kids) : IsJson(j.kids[i])

-----------------------------------------------------------------------------
(* Time.  A timestamp string "%Y-%m-%d %H:%M:%S.%f" is a record            *)
(*   k   "time" (well formed) | "malformed" | "absent" (no such argument)  *)
(*   us  the instant it names, in microseconds                             *)
(* The tracer counts nanoseconds.                                          *)

NsPerUs == 1000
TickNs == 1500
MaxNowNs == 1500
MaxStartUs == 1

TimeStr(us) == [k |-> "time", us |-> us]
Malformed == [k |-> "malformed", us |-> 0]
Absent == [k |-> "absent", us |-> 0]

\* get_current_ts(): the clock, formatted with microsecond precision.
get_current_ts == TimeStr(now \div NsPerUs)

\* int(datetime.strptime(s, "%Y-%m-%d %H:%M:%S.%f").timestamp() * 1e9)
strptime_ns(ts) == ts.us * NsPerUs

\* time_ns(), the tracer's own clock reading.
time_ns == now

TimeText(ts) ==
    IF ts.k = "time" THEN "1970-01-01 00:00:00.00000" \o ToString(ts.us)
    ELSE "yesterday"

MainThread == 0

\* The identifier of the main thread, whatever thread asks.
get_ident_of_main(t) == MainThread

\* threading.get_ident() in thread t.
get_ident(t) == t

-----------------------------------------------------------------------------
(* The arguments of the logging calls.                                     *)

\* A source: a bare string, None, an Agent, another object with a name
\* attribute, or an object without one.
Source(kind, label) == [kind |-> kind, label |-> label]
Sources == {Source("str", "alice"), Source("none", "None"), Source("agent", "bob"),
            Source("named", "carol"), Source("object", "Probe")}

IsAgent(source) == source.kind = "agent"
HasName(source) == source.kind \in {"agent", "named"}
HasModule(source) == source.kind \in {"agent", "named", "object"}
Id(label) == "id:" \o label

\* "source_name": str(source.name) if hasattr(source, "name") else source
\* as json.dumps meets it: a string, null, or an object it cannot encode.
SourceNameField(source) ==
    CASE HasName(source)          -> PyStr(source.label)
      [] source.kind = "str"      -> PyStr(source.label)
      [] source.kind = "none"     -> Leaf("num", "null")
      [] OTHER                    -> Leaf("obj", source.label)

Responses == {[kind |-> "completion", prompt |-> 10, completion |-> 5, total |-> 15],
              [kind |-> "str", prompt |-> 0, completion |-> 0, total |-> 0]}

Requests == {PyMap(<<"model">>, <<PyStr("gpt")>>),
             PyMap(<<"model", "hook">>, <<PyStr("gpt"), Leaf("obj", "Hook")>>)}

StartTimes == {TimeStr(u) : u \in 0..MaxStartUs} \cup {Malformed}

Agents == [label : {"bob"}, name : {"str", "none", "missing", "object"}, client : BOOLEAN]

Info(body) == [level |-> "INFO", body |-> body]
Error(prefix, exc) ==
    [level |-> "ERROR", body |-> [prefix |-> prefix, exc |-> exc.s, about |-> exc.keys[1]]]

NoSpan == [name |-> "none"]
Span(name, start, end, attrs) == [name |-> name, start |-> start, end |-> end, attrs |-> attrs]

\* What a call did: how it ended, what it put on the channel, its span.
Returned(entries, sp) == [outcome |-> "returned", exc |-> "", emitted |-> entries, span |-> sp]
Raised(exc) == [outcome |-> "raised", exc |-> exc.s, emitted |-> <<>>, span |-> NoSpan]

\* self.logger.info(log_data) inside a try whose handler reports on
\* self.logger.error: the record, or the report when the submission failed.
Submit(prefix, body, sinkFails, sp) ==
    IF sinkFails
    THEN Returned(<<Error(prefix, Raise("OSError", "sink"))>>, sp)
    ELSE Returned(<<Info(body)>>, sp)

Caught(prefix, exc) == Returned(<<Error(prefix, exc)>>, NoSpan)

-----------------------------------------------------------------------------
(* The logging calls, each as the outcome of one call made by thread tid.  *)

\* log_chat_completion: source.name is read before the try block.
log_chat_completion(tid, source, request, response, start_time, sinkFails) ==
    IF source.kind = "object"
    THEN Raised(Raise("AttributeError", "name"))
    ELSE
    LET prefix == "[otel_logger] Failed to log chat completion: "
        source_name == IF source.kind = "none" THEN "Unknown" ELSE source.label
        req == json_dumps(to_dict(request, {}), "none")
        log_data == [invocation_id |-> "inv-1", client_id |-> 1, wrapper_id |-> 2,
                     request |-> req, response |-> "str(response)", is_cached |-> 0,
                     cost |-> "0.002", start_time |-> TimeText(start_time),
                     end_time |-> TimeText(get_current_ts),
                     thread_id |-> tid, source_name |-> source_name,
                     prompt_tokens |-> response.prompt,
                     completion_tokens |-> response.completion,
                     total_tokens |-> response.total]
        sp == Span("llm_span", strptime_ns(start_time), strptime_ns(get_current_ts),
                   [cost |-> "0.002", source_name |-> source_name,
                    prompt_tokens |-> response.prompt,
                    completion_tokens |-> response.completion,
                    total_tokens |-> response.total])
    IN  CASE response.kind # "completion" -> Caught(prefix, Raise("AttributeError", "usage"))
          [] IsRaise(req)                 -> Caught(prefix, req)
          [] start_time.k # "time"        -> Caught(prefix, Raise("ValueError", "time data does not match format"))
          [] OTHER                        -> Submit(prefix, log_data, sinkFails, sp)

\* The record log_new_agent builds.
NewAgentRecordNoSession(tid, agent) ==
    [id |-> Id(agent.label),
     agent_name |-> IF agent.name = "str" THEN agent.label ELSE "",
     wrapper_id |-> IF agent.client THEN "wrapper-1" ELSE "",
     current_time |-> TimeText(get_current_ts),
     agent_type |-> "ConversableAgent", thread_id |-> tid]

NewAgentRecord(tid, agent) ==
    [id |-> Id(agent.label),
     agent_name |-> IF agent.name = "str" THEN agent.label ELSE "",
     wrapper_id |-> IF agent.client THEN "wrapper-1" ELSE "",
     session_id |-> session_id,
     current_time |-> TimeText(get_current_ts),
     agent_type |-> "ConversableAgent", thread_id |-> tid]

log_new_agent(tid, agent, sinkFails) ==
    LET prefix == "[otel_logger] Failed to log new agent: "
    IN  IF agent.name = "object"
        THEN Caught(prefix, Raise("TypeError", "Name"))
        ELSE Submit(prefix, NewAgentRecord(tid, agent), sinkFails, NoSpan)

\* The keys log_new_wrapper asks to_dict to drop.
WrapperExcludeWithoutApiKey ==
    {"self", "__class__", "organization", "base_url", "azure_endpoint",
     "azure_ad_token", "azure_ad_token_provider"}

WrapperExclude ==
    {"self", "__class__", "api_key", "organization", "base_url", "azure_endpoint",
     "azure_ad_token", "azure_ad_token_provider"}

log_new_wrapper(tid, wrapper, init_args, sinkFails) ==
    LET prefix == "[otel_logger] Failed to log new wrapper "
        args == to_dict(init_args, WrapperExclude)
        json_state == json_dumps(args, "none")
        log_data == [wrapper_id |-> Id(wrapper), session_id |-> session_id,
                     json_state |-> json_state,
                     timestamp |-> TimeText(get_current_ts), thread_id |-> tid]
    IN  IF IsRaise(json_state)
        THEN Caught(prefix, json_state)
        ELSE Submit(prefix, log_data, sinkFails, NoSpan)

log_new_client(tid, client, wrapper, init_args, sinkFails) ==
    LET prefix == "[otel_logger] Failed to log new client "
        json_state == json_dumps(init_args, "none")
        log_data == [client_id |-> Id(client), wrapper_id |-> Id(wrapper),
                     session_id |-> session_id, class |-> "OpenAI",
                     json_state |-> json_state,
                     timestamp |-> TimeText(get_current_ts), thread_id |-> tid]
    IN  IF IsRaise(json_state)
        THEN Caught(prefix, json_state)
        ELSE Submit(prefix, log_data, sinkFails, NoSpan)

log_function_use(tid, source, args, returns, sinkFails) ==
    LET prefix == "[otel_logger] Failed to log function use "
        input_args == safe_serialize(args)
        rets == safe_serialize(returns)
        name == SourceNameField(source)
        log_data == [source_id |-> Id(source.label), source_name |-> name,
                     agent_module |-> "autogen.agentchat", agent_class |-> source.label,
                     timestamp |-> TimeText(get_current_ts), thread_id |-> tid,
                     input_args |-> input_args, returns |-> rets]
        sp == Span("function_span", time_ns, time_ns, [source_name |-> name])
    IN  CASE ~HasModule(source)                 -> Caught(prefix, Raise("AttributeError", "__module__"))
          [] IsRaise(input_args)                -> Caught(prefix, input_args)
          [] IsRaise(rets)                      -> Caught(prefix, rets)
          [] IsRaise(json_dumps(name, "none"))  -> Caught(prefix, json_dumps(name, "none"))
          [] OTHER                              -> Submit(prefix, log_data, sinkFails, sp)

\* The keyword arguments of log_event as one dict.
Kwargs(start_time, payload) ==
    IF start_time.k = "absent"
    THEN PyMap(<<"state">>, <<payload>>)
    ELSE PyMap(<<"start_time", "state">>, <<PyStr(TimeText(start_time)), payload>>)

\* log_event, first statement (outside any try): json.dumps(kwargs,
\* default=lambda o: placeholder).
EventJsonArgs(start_time, payload) == json_dumps(Kwargs(start_time, payload), "marker")

\* log_event, the branch for an Agent source and the branch for any other.
EventBody(tid, source, name, json_args) ==
    IF IsAgent(source)
    THEN [source_id |-> Id(source.label), source_name |-> SourceNameField(source),
          event_name |-> name, agent_module |-> "autogen.agentchat",
          agent_class |-> "ConversableAgent", json_state |-> json_args,
          timestamp |-> TimeText(get_current_ts), thread_id |-> tid]
    ELSE [source_id |-> Id(source.label), source_name |-> SourceNameField(source),
          event_name |-> name, json_state |-> json_args,
          timestamp |-> TimeText(get_current_ts), thread_id |-> tid]

EventSpan(source, name, start_time) ==
    IF IsAgent(source)
    THEN Span(source.label \o ":" \o name,
              IF start_time.k = "absent" THEN time_ns ELSE strptime_ns(start_time),
              time_ns,
              [source_name |-> source.label, event_name |-> name])
    ELSE NoSpan

\* What the try block of log_event raises, if anything, before it submits.
EventFailure(source, start_time) ==
    CASE IsAgent(source) /\ start_time.k = "malformed"
             -> Raise("ValueError", "time data does not match format")
      [] ~IsAgent(source) /\ IsRaise(json_dumps(SourceNameField(source), "none"))
             -> json_dumps(SourceNameField(source), "none")
      [] OTHER -> Leaf("none", "")

log_event(tid, source, name, start_time, payload, sinkFails) ==
    LET prefix == "[otel_logger] Failed to log event "
        json_args == EventJsonArgs(start_time, payload)
    IN  CASE IsRaise(json_args)                         -> Raised(json_args)
          [] IsRaise(EventFailure(source, start_time))  -> Caught(prefix, EventFailure(source, start_time))
          [] OTHER -> Submit(prefix, EventBody(tid, source, name, json_args), sinkFails,
                             EventSpan(source, name, start_time))

-----------------------------------------------------------------------------
(* Spec: one logger instance, called from the main thread.                 *)

mainVars == <<env, constructed, exporter, session_id, handlers, closed, now,
              phase, firstId, last, emitted, span>>
serVars == <<obj, result>>
evtVars == <<thr, channel, spans>>

NoCall == [op |-> "none", outcome |-> "returned", exc |-> "", value |-> "None", input |-> "-"]

IdleMain ==
    /\ env = "unset" /\ constructed = "no" /\ exporter = "none"
    /\ session_id = "" /\ handlers = <<>> /\ closed = {} /\ now = 0
    /\ phase = "new" /\ firstId = "" /\ last = NoCall
    /\ emitted = <<>> /\ span = NoSpan

IdleSer == obj = Leaf("none", "") /\ result = Leaf("none", "")

IdleEvt == thr = <<>> /\ channel = <<>> /\ spans = <<>>

MaxPreHandlers == 3

SeqsUpTo(S, n) == UNION {[1..k -> S] : k \in 0..n}

InjSeqsUpTo(S, n) ==
    {q \in SeqsUpTo(S, n) : \A i, j \in 1..Len(q) : i # j => q[i] # q[j]}


EnvValues == {"unset", "otlp", "azure", "bogus"}
SessionIds == {"uuid-a", "uuid-b"}
HandlerIds == {"file1", "file2", "file3", "stream1"}
IsFileHandler(h) == h \in {"file1", "file2", "file3"}

EventStartTimes == StartTimes \cup {Absent}
EventPayloads == {PyStr("x"), Leaf("obj", "Thing"), PyList(<<Leaf("cycle", "")>>)}
FunctionArgs == {PyMap(<<"a">>, <<PyStr("x")>>), PyList(<<Leaf("obj", "Thing")>>),
                 PyList(<<Leaf("cycle", "")>>)}
FunctionReturns == {PyStr("ok"), PyMap(<<TupleKey>>, <<PyStr("x")>>)}
ClientArgs == {PyMap(<<"api_key">>, <<PyStr("sk-client")>>),
               PyMap(<<"http_client">>, <<Leaf("obj", "Client")>>)}

Pairs(key, vals) == {<<>>} \cup {<<[key |-> key, val |-> v]>> : v \in vals}
MapOf(pairs) == PyMap([i \in 1..Len(pairs) |-> pairs[i].key],
                      [i \in 1..Len(pairs) |-> pairs[i].val])
NestedConfigs ==
    {MapOf(a \o m) : a \in Pairs("api_key", {PyStr("sk-nested")}),
                     m \in Pairs("model", {PyStr("gpt")})}
\* init_args of log_new_wrapper: the wrapper's arguments, secrets at the top
\* level and inside config_list.
WrapperArgs ==
    {MapOf(a \o b \o m \o c) :
        a \in Pairs("api_key", {PyStr("sk-top")}),
        b \in Pairs("base_url", {PyStr("https://host")}),
        m \in {<<[key |-> "model", val |-> v]>> : v \in {PyStr("gpt"), Leaf("obj", "Client")}},
        c \in Pairs("config_list", {PyList(<<n>>) : n \in NestedConfigs \ {MapOf(<<>>)}})}

Init ==
    /\ env \in EnvValues
    /\ constructed = "no" /\ exporter = "none" /\ session_id = ""
    /\ handlers = <<>>
    /\ closed = {} /\ now = 0 /\ phase = "new" /\ firstId = ""
    /\ last = NoCall /\ emitted = <<>> /\ span = NoSpan
    /\ IdleSer /\ IdleEvt

\* os.environ.get("EXPORTER_TYPE", "otlp")
ExporterType == IF env = "unset" THEN "otlp" ELSE env

\* OtelLogger.__init__: the else branch names AzureMonitorLogExporter, which
\* the module never imports.
Construct(sid) ==
    /\ constructed = "no"
    /\ session_id' = sid
    /\ IF ExporterType = "otlp"
       THEN /\ exporter' = "otlp"
            /\ constructed' = "ok"
            /\ handlers' = Append(handlers, "otel")
            /\ last' = [NoCall EXCEPT !.op = "__init__"]
       ELSE /\ exporter' = "none"
            /\ constructed' = "failed"
            /\ handlers' = handlers
            /\ last' = [NoCall EXCEPT !.op = "__init__", !.outcome = "raised",
                                      !.exc = "NameError"]
    /\ UNCHANGED <<env, closed, now, phase, firstId, emitted, span, serVars, evtVars>>

\* A logging call leaves the instance as it found it.
Apply(op, input, r) ==
    /\ constructed = "ok"
    /\ last' = [op |-> op, outcome |-> r.outcome, exc |-> r.exc, value |-> "None",
                input |-> input]
    /\ emitted' = r.emitted
    /\ span' = r.span
    /\ UNCHANGED <<env, constructed, exporter, session_id, handlers, closed, now,
                   phase, firstId, serVars, evtVars>>

\* start(): what the finally clause returns.
StartReturnsInsideTry(sinkFails) == IF sinkFails THEN "" ELSE session_id

StartReturn(sinkFails) == session_id

Start(sinkFails) ==
    /\ constructed = "ok"
    /\ emitted' = IF sinkFails
                  THEN <<Error("[otel_logger] Failed to create logging file: ",
                               Raise("OSError", "sink"))>>
                  ELSE <<Info([message |-> "Started new session with Session ID: ",
                               session_id |-> session_id])>>
    /\ last' = [NoCall EXCEPT !.op = "start", !.value = StartReturn(sinkFails)]
    /\ firstId' = IF firstId = "" THEN StartReturn(sinkFails) ELSE firstId
    /\ phase' = "started"
    /\ span' = NoSpan
    /\ UNCHANGED <<env, constructed, exporter, session_id, handlers, closed, now,
                   serVars, evtVars>>

LogChatCompletion(source, request, response, start_time, sinkFails) ==
    Apply("log_chat_completion", "-",
          log_chat_completion(get_ident(MainThread), source, request, response,
                              start_time, sinkFails))

LogNewAgent(agent, sinkFails) ==
    Apply("log_new_agent", "-", log_new_agent(get_ident(MainThread), agent, sinkFails))

LogEvent(source, name, start_time, payload, sinkFails) ==
    Apply("log_event", "-",
          log_event(get_ident(MainThread), source, name, start_time, payload, sinkFails))

LogNewWrapper(init_args, sinkFails) ==
    Apply("log_new_wrapper", init_args,
          log_new_wrapper(get_ident(MainThread), "wrapper-1", init_args, sinkFails))

LogNewClient(init_args, sinkFails) ==
    Apply("log_new_client", "-",
          log_new_client(get_ident(MainThread), "client-1", "wrapper-1", init_args,
                         sinkFails))

LogFunctionUse(source, args, returns, sinkFails) ==
    Apply("log_function_use", "-",
          log_function_use(get_ident(MainThread), source, args, returns, sinkFails))

GetConnection == Apply("get_connection", "-", Returned(<<>>, NoSpan))

\* logging.Logger.removeHandler: the list without that handler.
Remove(hs, h) == SelectSeq(hs, LAMBDA x : x # h)

\* stop(): "for handler in self.logger.handlers" walks the list by index
\* while removeHandler shortens it.
RECURSIVE StopLoop(_, _, _)
StopLoop(hs, i, cl) ==
    IF i > Len(hs) THEN [handlers |-> hs, closed |-> cl]
    ELSE IF IsFileHandler(hs[i])
         THEN StopLoop(Remove(hs, hs[i]), i + 1, cl \cup {hs[i]})
         ELSE StopLoop(hs, i + 1, cl)

Stop ==
    /\ constructed = "ok"
    /\ LET r == StopLoop(handlers, 1, closed)
       IN  /\ handlers' = r.handlers
           /\ closed' = r.closed
    /\ last' = [NoCall EXCEPT !.op = "stop", !.input = handlers]
    /\ phase' = "stopped"
    /\ emitted' = <<>>
    /\ span' = NoSpan
    /\ UNCHANGED <<env, constructed, exporter, session_id, now, firstId, serVars, evtVars>>

Tick ==
    /\ now + TickNs <= MaxNowNs
    /\ now' = now + TickNs
    /\ UNCHANGED <<env, constructed, exporter, session_id, handlers, closed, phase,
                   firstId, last, emitted, span, serVars, evtVars>>

Next ==
    \/ \E sid \in SessionIds : Construct(sid)
    \/ \E f \in BOOLEAN : Start(f)
    \/ \E source \in Sources, request \in Requests, response \in Responses,
          start_time \in StartTimes, f \in BOOLEAN :
            LogChatCompletion(source, request, response, start_time, f)
    \/ \E agent \in Agents, f \in BOOLEAN : LogNewAgent(agent, f)
    \/ \E source \in Sources, name \in {"reply"}, start_time \in EventStartTimes,
          payload \in EventPayloads, f \in BOOLEAN :
            LogEvent(source, name, start_time, payload, f)
    \/ \E init_args \in WrapperArgs, f \in BOOLEAN : LogNewWrapper(init_args, f)
    \/ \E init_args \in ClientArgs, f \in BOOLEAN : LogNewClient(init_args, f)
    \/ \E source \in Sources, args \in FunctionArgs, returns \in FunctionReturns,
          f \in BOOLEAN : LogFunctionUse(source, args, returns, f)
    \/ GetConnection
    \/ Stop
    \/ Tick

Spec == Init /\ [][Next]_vars

-----------------------------------------------------------------------------
(* SpecStop: the same instance on a root logger that already carries       *)
(* handlers when the instance is constructed.                              *)

PreHandlerLists == InjSeqsUpTo(HandlerIds, MaxPreHandlers)

InitStop ==
    /\ env \in EnvValues
    /\ constructed = "no" /\ exporter = "none" /\ session_id = ""
    /\ handlers \in PreHandlerLists
    /\ closed = {} /\ now = 0 /\ phase = "new" /\ firstId = ""
    /\ last = NoCall /\ emitted = <<>> /\ span = NoSpan
    /\ IdleSer /\ IdleEvt

NextStop ==
    \/ \E sid \in SessionIds : Construct(sid)
    \/ \E f \in BOOLEAN : Start(f)
    \/ GetConnection
    \/ Stop

SpecStop == InitStop /\ [][NextStop]_vars

-----------------------------------------------------------------------------
(* SpecEvt: log_event called once by each of NThreads threads.  A call is  *)
(* a sequence of steps; the steps of different threads interleave.  The    *)
(* only state the calls share is the logging channel and the tracer, each  *)
(* of which takes one submission at a time.                                *)

NThreads == 2

Threads == 1..NThreads

EventCall(source, name, start_time, payload, sinkFails) ==
    [source |-> source, name |-> name, start_time |-> start_time,
     payload |-> payload, sinkFails |-> sinkFails]

\* The calls a thread may make: to a string, an Agent and an unnamed object,
\* with and without a start_time, with kwargs json can and cannot encode.
EventCalls ==
    {EventCall(Source("str", "alice"), "reply", Absent, PyStr("x"), FALSE),
     EventCall(Source("agent", "bob"), "send", Absent, PyStr("x"), FALSE),
     EventCall(Source("agent", "bob"), "reply", TimeStr(0), Leaf("obj", "Thing"), FALSE),
     EventCall(Source("agent", "bob"), "send", Malformed, PyStr("x"), FALSE),
     EventCall(Source("object", "Probe"), "reply", Absent, PyStr("x"), FALSE),
     EventCall(Source("str", "alice"), "send", Absent, PyList(<<Leaf("cycle", "")>>), FALSE),
     EventCall(Source("str", "alice"), "reply", Absent, PyStr("x"), TRUE)}

NoEventCall == EventCall(Source("none", "None"), "", Absent, Leaf("none", ""), FALSE)

IdleThread ==
    [pc |-> "idle", call |-> NoEventCall, json_args |-> Leaf("none", ""),
     thread_id |-> -1, log_data |-> [event_name |-> ""], exc |-> Leaf("none", "")]

InitEvt ==
    /\ env = "unset" /\ constructed = "ok" /\ exporter = "otlp"
    /\ session_id \in SessionIds /\ handlers = <<"otel">> /\ closed = {} /\ now = 0
    /\ phase = "started" /\ firstId = session_id
    /\ last = [NoCall EXCEPT !.op = "start", !.value = session_id]
    /\ emitted = <<>> /\ span = NoSpan
    /\ IdleSer
    /\ thr = [t \in Threads |-> IdleThread]
    /\ channel = <<>> /\ spans = <<>>

\* Thread t enters log_event with its arguments.
EvtCall(t, c) ==
    /\ thr[t].pc = "idle"
    /\ thr' = [thr EXCEPT ![t].pc = "called", ![t].call = c]
    /\ UNCHANGED <<channel, spans, mainVars, serVars>>

\* json_args = json.dumps(kwargs, default=...); thread_id = get_ident().
\* Neither is inside a try: a failure leaves log_event.
EvtEncode(t) ==
    /\ thr[t].pc = "called"
    /\ LET c == thr[t].call
           json_args == EventJsonArgs(c.start_time, c.payload)
       IN  thr' = IF IsRaise(json_args)
                  THEN [thr EXCEPT ![t].pc = "raised", ![t].exc = json_args]
                  ELSE [thr EXCEPT ![t].pc = "encoded", ![t].json_args = json_args,
                                   ![t].thread_id = get_ident(t)]
    /\ UNCHANGED <<channel, spans, mainVars, serVars>>

\* The start of the try block: start_time parsed, log_data built.
EvtBuild(t) ==
    /\ thr[t].pc = "encoded"
    /\ LET c == thr[t].call
           failure == EventFailure(c.source, c.start_time)
       IN  thr' = IF IsRaise(failure)
                  THEN [thr EXCEPT ![t].pc = "failed", ![t].exc = failure]
                  ELSE [thr EXCEPT ![t].pc = "built",
                                   ![t].log_data = EventBody(thr[t].thread_id, c.source,
                                                             c.name, thr[t].json_args)]
    /\ UNCHANGED <<channel, spans, mainVars, serVars>>

\* The span of an Agent's event, opened and ended.
EvtSpan(t) ==
    /\ thr[t].pc = "built"
    /\ IsAgent(thr[t].call.source)
    /\ spans' = Append(spans, [by |-> t,
                               span |-> EventSpan(thr[t].call.source, thr[t].call.name,
                                                  thr[t].call.start_time)])
    /\ thr' = [thr EXCEPT ![t].pc = "spanned"]
    /\ UNCHANGED <<channel, mainVars, serVars>>

\* self.logger.info(log_data)
EvtEmit(t) ==
    /\ \/ thr[t].pc = "spanned"
       \/ thr[t].pc = "built" /\ ~IsAgent(thr[t].call.source)
    /\ IF thr[t].call.sinkFails
       THEN /\ thr' = [thr EXCEPT ![t].pc = "failed", ![t].exc = Raise("OSError", "sink")]
            /\ channel' = channel
       ELSE /\ thr' = [thr EXCEPT ![t].pc = "done"]
            /\ channel' = Append(channel, [by |-> t, entry |-> Info(thr[t].log_data)])
    /\ UNCHANGED <<spans, mainVars, serVars>>

\* The except clause: self.logger.error(...)
EvtReport(t) ==
    /\ thr[t].pc = "failed"
    /\ channel' = Append(channel,
                         [by |-> t,
                          entry |-> Error("[otel_logger] Failed to log event ", thr[t].exc)])
    /\ thr' = [thr EXCEPT ![t].pc = "done"]
    /\ UNCHANGED <<spans, mainVars, serVars>>

TickEvt ==
    /\ now + TickNs <= MaxNowNs
    /\ now' = now + TickNs
    /\ UNCHANGED <<env, constructed, exporter, session_id, handlers, closed, phase,
                   firstId, last, emitted, span, serVars, evtVars>>

NextEvt ==
    \/ \E t \in Threads, c \in EventCalls : EvtCall(t, c)
    \/ \E t \in Threads : EvtEncode(t)
    \/ \E t \in Threads : EvtBuild(t)
    \/ \E t \in Threads : EvtSpan(t)
    \/ \E t \in Threads : EvtEmit(t)
    \/ \E t \in Threads : EvtReport(t)
    \/ TickEvt

SpecEvt == InitEvt /\ [][NextEvt]_vars

-----------------------------------------------------------------------------
(* SpecSer: safe_serialize over a bounded family of values.                *)

MaxDepth == 2
MaxItems == 2

NoValue == Leaf("none", "")

Leaves == {PyStr("x"), Leaf("obj", "Thing"), Leaf("tojson", "Msg"), Leaf("cycle", "")}

KeyNames == {"a", TupleKey}

RECURSIVE Values(_)
Values(d) ==
    IF d = 0 THEN Leaves
    ELSE LET sub == Values(d - 1)
         IN  sub
             \cup {PyList(q) : q \in SeqsUpTo(sub, MaxItems)}
             \cup UNION {{PyMap(ks, q) : q \in [1..Len(ks) -> sub]}
                           : ks \in InjSeqsUpTo(KeyNames, MaxItems)}

\* The values a caller can hand over: a "cycle" only occurs inside a container.
Inputs == {v \in Values(MaxDepth) : v.t # "cycle"}

InitSer == IdleMain /\ IdleEvt /\ obj \in Inputs /\ result = NoValue

Serialize ==
    /\ result = NoValue
    /\ result' = safe_serialize(obj)
    /\ UNCHANGED <<obj, mainVars, evtVars>>

NextSer == Serialize

SpecSer == InitSer /\ [][NextSer]_vars

\* Every unencodable leaf without to_json, anywhere in a value.
RECURSIVE OpaqueLeaves(_)
OpaqueLeaves(v) ==
    IF v.t = "obj" THEN {v.s}
    ELSE UNION {OpaqueLeaves(v.kids[i]) : i \in 1..Len(v.kids)}

\* C8: safe_serialize is total: for every input it returns a string that
\* parses as JSON, never raises, and holds the placeholder marker plus the
\* type name for every leaf it cannot encode and that has no to_json.
C8_SafeSerializeTotal ==
    result # NoValue =>
        /\ ~IsRaise(result)
        /\ IsJson(result)
        /\ \A cls \in OpaqueLeaves(obj) : (Marker \o cls \o ">>") \in StringsOf(result)

-----------------------------------------------------------------------------
(* Properties of Spec and SpecStop.                                        *)

LogOps == {"log_chat_completion", "log_new_agent", "log_new_wrapper",
           "log_new_client", "log_function_use", "log_event"}

HasEntry(level) == \E i \in 1..Len(emitted) : emitted[i].level = level

\* C1: every public logging operation, in every lifecycle state and for
\* every input, returns normally, and when it built no record an error
\* entry is on the diagnostic channel.
C1_LoggingNeverRaises ==
    last.op \in LogOps =>
        /\ last.outcome = "returned"
        /\ HasEntry("INFO") \/ HasEntry("ERROR")

\* C2: start() returns the instance's non-empty session id, also when the
\* announcement fails, and the stored id stays what the first start()
\* returned.
C2_StartReturnsStableSessionId ==
    /\ last.op = "start" =>
           /\ last.outcome = "returned"
           /\ last.value = session_id
           /\ last.value # ""
    /\ phase = "started" => firstId # ""
    /\ firstId # "" => session_id = firstId

C2_StartAfterFailedAnnouncement ==
    /\ last.op = "start"
    /\ HasEntry("ERROR")
    /\ last.value = session_id
    /\ now > 0

CarriesSession(e) ==
    /\ "session_id" \in DOMAIN e.body
    /\ e.body.session_id = firstId

SessionOps == {"log_new_agent", "log_new_wrapper", "log_new_client"}

C4_SpanEndNotBeforeStart ==
    span.name # "none" => span.end >= span.start

\* The keys the specification lists for redaction.
RedactionSet == {"api_key", "organization", "base_url", "azure_endpoint",
                 "azure_ad_token", "azure_ad_token_provider"}

\* The strings held under a redacted key, at any level of a value.
RECURSIVE SecretsOf(_)
SecretsOf(v) ==
    UNION {IF v.t = "map" /\ v.keys[i] \in RedactionSet
           THEN StringsOf(v.kids[i])
           ELSE SecretsOf(v.kids[i]) : i \in 1..Len(v.kids)}

RECURSIVE KeysOf(_)
KeysOf(j) ==
    {j.keys[i] : i \in 1..Len(j.keys)} \cup UNION {KeysOf(j.kids[i]) : i \in 1..Len(j.kids)}

\* What an entry on the channel spells out of the caller's data.
Mentions(e) ==
    IF e.level = "INFO" THEN StringsOf(e.body.json_state) ELSE {e.body.about}

\* C5: nothing log_new_wrapper emits, record or error report, holds the
\* value of api_key or of another redacted key of its init args.
C5_WrapperNeverEmitsSecrets ==
    last.op = "log_new_wrapper" =>
        \A i \in 1..Len(emitted) :
            /\ Mentions(emitted[i]) \cap SecretsOf(last.input) = {}
            /\ emitted[i].level = "INFO" =>
                   KeysOf(emitted[i].body.json_state) \cap RedactionSet = {}

C5_WrapperRecordWithSecretsGiven ==
    /\ last.op = "log_new_wrapper"
    /\ {"sk-top", "sk-nested"} \subseteq SecretsOf(last.input)
    /\ HasEntry("INFO")
    /\ "gpt" \in StringsOf(emitted[1].body.json_state)

\* C6: constructed with an unrecognized exporter setting, the logger falls
\* back to the default exporter and construction completes.
C6_UnrecognizedExporterFallsBack ==
    (constructed # "no" /\ env \notin {"unset", "otlp", "azure"}) =>
        /\ constructed = "ok"
        /\ exporter = "otlp"

\* C7: a stop() that follows a stop() returns normally and leaves the
\* attached handlers as the first one left them.
C7_StopIdempotent ==
    [][(last.op = "stop" /\ last'.op = "stop") =>
           (last'.outcome = "returned" /\ handlers' = handlers)]_vars

Attached(hs) == {hs[i] : i \in 1..Len(hs)}

\* C10: after one stop(), no file handler is attached, every file handler
\* that was attached is closed and detached, every other handler is still
\* attached.
C10_StopDetachesEveryFileHandler ==
    last.op = "stop" =>
        /\ \A h \in Attached(handlers) : ~IsFileHandler(h)
        /\ \A h \in Attached(last.input) :
               IF IsFileHandler(h)
               THEN h \in closed /\ h \notin Attached(handlers)
               ELSE h \in Attached(handlers)

-----------------------------------------------------------------------------
(* Properties of SpecEvt.                                                  *)

AllDone == \A t \in Threads : thr[t].pc \in {"done", "raised"}

\* A call whose arguments let the record be built and submitted: a source
\* json can name, kwargs json can encode, a start_time that is absent or
\* well formed, a channel that takes the record.
RECURSIVE Encodable(_)
Encodable(v) ==
    /\ v.t # "cycle"
    /\ \A i \in 1..Len(v.keys) : IsStrKey(v.keys[i])
    /\ \A i \in 1..Len(v.kids) : Encodable(v.kids[i])

ValidCall(c) ==
    /\ c.source.kind # "object"
    /\ c.start_time.k # "malformed"
    /\ Encodable(c.payload)
    /\ ~c.sinkFails

RecordsBy(t) == {i \in 1..Len(channel) : channel[i].by = t /\ channel[i].entry.level = "INFO"}

OwnFields(t, body) ==
    /\ body.thread_id = t
    /\ body.event_name = thr[t].call.name
    /\ body.source_id = Id(thr[t].call.source.label)
    /\ body.source_name = SourceNameField(thr[t].call.source)

\* C9: N concurrent calls of log_event produce N records, one per call, each
\* with the thread id, source and event name of its own call.
C9_OneRecordPerCall ==
    /\ \A i \in 1..Len(channel) :
           channel[i].entry.level = "INFO" => OwnFields(channel[i].by, channel[i].entry.body)
    /\ AllDone =>
           /\ \A t \in Threads :
                  Cardinality(RecordsBy(t)) = IF ValidCall(thr[t].call) THEN 1 ELSE 0
           /\ (\A t \in Threads : ValidCall(thr[t].call)) =>
                  Cardinality({i \in 1..Len(channel) : channel[i].entry.level = "INFO"})
                      = NThreads

C9_AllRecordsOfDistinctCalls ==
    /\ AllDone
    /\ \A t \in Threads : ValidCall(thr[t].call)
    /\ \A t \in Threads : Cardinality(RecordsBy(t)) = 1
    /\ \E t, u \in Threads : /\ thr[t].call.name # thr[u].call.name
                             /\ thr[t].call.source # thr[u].call.source
                             /\ channel[1].by = u /\ u > t

====
